---- MODULE Spec2Model ----
(***************************************************************************)
(* FBES Self-Assessment Tool: the FastAPI backend (backend/main.py) and    *)
(* its tables (backend/models.py) as a state machine.                      *)
(*                                                                         *)
(* Numbers.  Weights and impacts are integers.  A Python float that the    *)
(* code computes by division is kept exact, as a fraction [n, d]; a        *)
(* fraction with d = 0 stands for a raised ZeroDivisionError.  round(x, k) *)
(* is round-half-even on the exact value, and a rounded value is kept as   *)
(* the integer x * 10^k (overall_score 1000 is 100.0).                     *)
(***************************************************************************)
EXTENDS Integers, Sequences, FiniteSets, TLC

VARIABLES
    CATEGORIES_DATA,    \* the catalog's "categories" list, loaded at start-up
    users,              \* table users: row i has id i
    assessments,        \* table assessments: row i has id i
    analytics_events,   \* table analytics_events, append-only
    tokens,             \* access tokens handed out so far (held by clients)
    now,                \* the clock, in days
    request,            \* the request handled last, with the resolved user
    response,           \* the response to it
    last_complete,      \* history: per assessment, the result the last successful
                        \* completion returned since the last saved update
    faults,             \* environment: the commits that have failed so far
    handled             \* the requests handled so far

vars == <<CATEGORIES_DATA, users, assessments, analytics_events, tokens, now,
          request, response, last_complete, faults, handled>>

-----------------------------------------------------------------------------
(* Bounds of the model *)

MaxRequests == 5
MaxAssessments == 2
MaxNow == 31
MaxCategories == 2
MaxFaults == 1

(* Program constants *)

ACCESS_TOKEN_EXPIRE_DAYS == 30
TopN == 10

\* a nullable value: Null, or Some(v)
Null == << >>
Some(v) == << v >>

-----------------------------------------------------------------------------
(* Python helpers *)

EmptyDict == [k \in {} |-> 0]

\* dict.get(key, default)
PyGet(d, key, default) == IF key \in DOMAIN d THEN d[key] ELSE default

\* dict.update(other): keys of other replace or add whole values
PyUpdate(current, other) ==
    [k \in DOMAIN current \cup DOMAIN other |->
        IF k \in DOMAIN other THEN other[k] ELSE current[k]]

RECURSIVE Gcd(_, _)
Gcd(a, b) == IF b = 0 THEN a ELSE Gcd(b, a % b)

\* an exact value n/d in lowest terms (d > 0)
Frac(n, d) == LET g == Gcd(n, d) IN IF g = 0 THEN [n |-> 0, d |-> d] ELSE [n |-> n \div g, d |-> d \div g]

FracOfInt(i) == [n |-> i, d |-> 1]

\* x / y on floats: raises ZeroDivisionError (d = 0) when y is 0
PyDiv(x, y) == IF y = 0 THEN [n |-> x, d |-> 0] ELSE Frac(x, y)

ZeroDivisionError(x) == x.d = 0

FracAdd(x, y) ==
    IF x.d = 0 \/ y.d = 0 THEN [n |-> 0, d |-> 0]
    ELSE Frac(x.n * y.d + y.n * x.d, x.d * y.d)

FracMulInt(x, i) == IF x.d = 0 THEN x ELSE Frac(x.n * i, x.d)

FracDivInt(x, i) == IF x.d = 0 \/ i = 0 THEN [n |-> x.n, d |-> 0] ELSE Frac(x.n, x.d * i)

\* x >= i
FracGeq(x, i) == x.n >= i * x.d

\* round(x, k) with scale = 10^k, as the integer round(x, k) * scale
PyRound(x, scale) ==
    LET num == x.n * scale
        q == num \div x.d
        r == num % x.d
    IN  IF 2 * r < x.d THEN q
        ELSE IF 2 * r > x.d THEN q + 1
        ELSE IF q % 2 = 0 THEN q ELSE q + 1

-----------------------------------------------------------------------------
(* The scoring of complete_assessment, main.py lines 285-345.  A category  *)
(* is [id, name, weight, questions]; a question is [id, text, impact], or  *)
(* [id, text] when the catalog leaves the impact out.                      *)

\* question.get("impact", 1.0)
Impact(question) == PyGet(question, "impact", 1)

\* cat_responses.get(q_id, {}).get("answer", "no")
AnswerOf(cat_responses, q_id) ==
    PyGet(PyGet(cat_responses, q_id, EmptyDict), "answer", "no")

\* responses.get(cat_id, {})
CatResponses(responses, category) == PyGet(responses, category.id, EmptyDict)

\* the loop over category["questions"], lines 297-309: max_score after k questions
RECURSIVE MaxScore(_, _)
MaxScore(questions, k) ==
    IF k = 0 THEN 0
    ELSE MaxScore(questions, k - 1) + 2 * Impact(questions[k])

\* faulty variant of Points: "yes" earns what "partial" earns
PointsYesAsPartial(answer, impact) ==
    IF answer \in {"yes", "partial"} THEN 1 * impact ELSE 0

\* the points one answer adds to actual_score, lines 305-309
Points(answer, impact) ==
    IF answer = "yes" THEN 2 * impact
    ELSE IF answer = "partial" THEN 1 * impact
    ELSE 0

RECURSIVE ActualScore(_, _, _)
ActualScore(questions, cat_responses, k) ==
    IF k = 0 THEN 0
    ELSE ActualScore(questions, cat_responses, k - 1)
         + Points(AnswerOf(cat_responses, questions[k].id), Impact(questions[k]))

\* faulty variant of RawPct: the division without its guard
RawPctUnguarded(actual_score, max_score) == FracMulInt(PyDiv(actual_score, max_score), 100)

\* line 311
RawPct(actual_score, max_score) ==
    IF max_score > 0 THEN FracMulInt(PyDiv(actual_score, max_score), 100) ELSE FracOfInt(0)

CategoryRawPct(category, responses) ==
    LET n == Len(category.questions)
    IN  RawPct(ActualScore(category.questions, CatResponses(responses, category), n),
               MaxScore(category.questions, n))

\* line 312
WeightedScore(category, responses) ==
    FracMulInt(CategoryRawPct(category, responses), category.weight)

\* line 316
StatusLabel(raw_pct) ==
    IF FracGeq(raw_pct, 75) THEN "strong"
    ELSE IF FracGeq(raw_pct, 50) THEN "adequate" ELSE "weak"

\* lines 317-322: one entry of category_scores (raw_score in tenths,
\* weighted_score in hundredths)
CategoryScoreEntry(category, responses) ==
    LET raw_pct == CategoryRawPct(category, responses)
    IN  [name |-> category.name,
         raw_score |-> PyRound(raw_pct, 10),
         weighted_score |-> PyRound(WeightedScore(category, responses), 100),
         status |-> StatusLabel(raw_pct)]

\* total_weighted_score and total_weight after the first k categories
RECURSIVE TotalWeightedScore(_, _, _)
TotalWeightedScore(categories, responses, k) ==
    IF k = 0 THEN FracOfInt(0)
    ELSE FracAdd(TotalWeightedScore(categories, responses, k - 1),
                 WeightedScore(categories[k], responses))

RECURSIVE TotalWeight(_, _)
TotalWeight(categories, k) ==
    IF k = 0 THEN 0 ELSE TotalWeight(categories, k - 1) + categories[k].weight

\* line 324, before rounding; the guard is the code's
OverallExact(total_weighted_score, total_weight) ==
    IF total_weight > 0 THEN FracDivInt(total_weighted_score, total_weight)
    ELSE FracOfInt(0)

\* category_scores: a dict keyed by str(category["id"])
CategoryScores(categories, responses) ==
    [cid \in {categories[k].id : k \in 1..Len(categories)} |->
        LET k == CHOOSE j \in 1..Len(categories) :
                    /\ categories[j].id = cid
                    /\ \A i \in 1..Len(categories) : categories[i].id = cid => i <= j
        IN  CategoryScoreEntry(categories[k], responses)]

\* lines 335-342: the candidate of one question, or none (<<>>)
Candidate(category, question, responses) ==
    LET answer == AnswerOf(CatResponses(responses, category), question.id)
    IN  IF answer \in {"no", "partial"}
        THEN << [category |-> category.name,
                 question |-> question.text,
                 current_answer |-> answer,
                 impact |-> Impact(question),
                 priority_score |-> category.weight * Impact(question)
                                    * (IF answer = "no" THEN 2 ELSE 1)] >>
        ELSE << >>

RECURSIVE CategoryCandidates(_, _, _)
CategoryCandidates(category, responses, k) ==
    IF k = 0 THEN << >>
    ELSE CategoryCandidates(category, responses, k - 1)
         \o Candidate(category, category.questions[k], responses)

\* lines 327-342: all candidates, in encounter order
RECURSIVE Candidates(_, _, _)
Candidates(categories, responses, k) ==
    IF k = 0 THEN << >>
    ELSE Candidates(categories, responses, k - 1)
         \o CategoryCandidates(categories[k], responses, Len(categories[k].questions))

\* faulty variant of InsertDesc: an entry goes before the entries of equal key
RECURSIVE InsertDescUnstable(_, _)
InsertDescUnstable(sorted, x) ==
    IF sorted = << >> THEN << x >>
    ELSE IF Head(sorted).priority_score > x.priority_score
         THEN << Head(sorted) >> \o InsertDescUnstable(Tail(sorted), x)
         ELSE << x >> \o sorted

\* list.sort(key=priority_score, reverse=True): stable, so an entry goes
\* behind every entry whose key is at least its own
RECURSIVE InsertDesc(_, _)
InsertDesc(sorted, x) ==
    IF sorted = << >> THEN << x >>
    ELSE IF Head(sorted).priority_score >= x.priority_score
         THEN << Head(sorted) >> \o InsertDesc(Tail(sorted), x)
         ELSE << x >> \o sorted

RECURSIVE SortDesc(_, _)
SortDesc(list, k) ==
    IF k = 0 THEN << >> ELSE InsertDesc(SortDesc(list, k - 1), list[k])

\* line 345: recommendations[:10]
TopRecommendations(recommendations) ==
    SubSeq(recommendations, 1, IF Len(recommendations) < TopN THEN Len(recommendations) ELSE TopN)

\* line 369
Readiness(overall_score) ==
    IF overall_score >= 750 THEN "ready"
    ELSE IF overall_score >= 500 THEN "promising" ELSE "needs_work"

\* lines 285-345 as one function of the stored responses and the catalog.
\* error: a ZeroDivisionError was raised on line 311 or 324.
Score(categories, responses) ==
    LET n == Len(categories)
        total_weighted_score == TotalWeightedScore(categories, responses, n)
        total_weight == TotalWeight(categories, n)
        overall == OverallExact(total_weighted_score, total_weight)
        cands == Candidates(categories, responses, n)
    IN  IF ZeroDivisionError(total_weighted_score) \/ ZeroDivisionError(overall)
        THEN [error |-> TRUE, overall_score |-> 0, category_scores |-> EmptyDict,
              recommendations |-> << >>]
        ELSE [error |-> FALSE,
              overall_score |-> PyRound(overall, 10),
              category_scores |-> CategoryScores(categories, responses),
              recommendations |-> TopRecommendations(SortDesc(cands, Len(cands)))]

-----------------------------------------------------------------------------
(* Authentication, main.py lines 32-40 and 102-136 *)

SECRET_KEY == "fbes-assessment-tool-secret-key-change-in-production"

\* SimplePwdContext.hash: sha256, one-way and taken as collision-free
PwdHash(password) == << "sha256", password >>

\* SimplePwdContext.verify
PwdVerify(password, hashed) == PwdHash(password) = hashed

\* create_access_token({"sub": user.id}): the claims, signed with SECRET_KEY
create_access_token(user_id) ==
    [sub |-> user_id, exp |-> now + ACCESS_TOKEN_EXPIRE_DAYS, key |-> SECRET_KEY]

\* a token no server signed
ForgedToken == [sub |-> 1, exp |-> MaxNow + ACCESS_TOKEN_EXPIRE_DAYS, key |-> "forged"]

\* jwt.decode: the claims, or Null for JWTError (bad signature, expired)
JwtDecode(auth_token) ==
    IF auth_token.key = SECRET_KEY /\ auth_token.exp >= now THEN Some(auth_token) ELSE Null

\* lines 115-119: which token is looked at.  An Authorization header is
\* [scheme, token]; only scheme "Bearer" starts with "Bearer ".
AuthToken(authorization, cookie) ==
    IF authorization # Null /\ authorization[1].scheme = "Bearer"
    THEN Some(authorization[1].token)
    ELSE IF cookie # Null THEN cookie ELSE Null

\* get_current_user: the id of the resolved user, or Null
get_current_user(authorization, cookie) ==
    LET auth_token == AuthToken(authorization, cookie)
    IN  IF auth_token = Null THEN Null
        ELSE LET payload == JwtDecode(auth_token[1])
             IN  IF payload = Null THEN Null
                 ELSE IF payload[1].sub \in 1..Len(users) THEN Some(payload[1].sub)
                 ELSE Null

-----------------------------------------------------------------------------
(* Requests and responses *)

Request(op, authorization, cookie, user, assessment_id, credentials, body) ==
    [op |-> op, authorization |-> authorization, cookie |-> cookie, user |-> user,
     assessment_id |-> assessment_id, credentials |-> credentials, body |-> body]

NoRequest == Request("none", Null, Null, Null, 0, Null, Null)

Response(status_code, detail) ==
    [status_code |-> status_code, detail |-> detail, token |-> Null, id |-> 0,
     item |-> Null, items |-> Null, result |-> Null]

Unauthorized == Response(401, "Not authenticated")
NotFound == Response(404, "Assessment not found")
\* an exception no handler catches: Starlette answers 500
ServerError == Response(500, "Internal Server Error")

\* what a client can send as a token: one it was handed, or a forged one
ClientTokens == tokens \cup {ForgedToken}

Headers ==
    {Null} \cup {Some([scheme |-> "Bearer", token |-> t]) : t \in ClientTokens}
           \cup {Some([scheme |-> "Basic", token |-> ForgedToken])}

Cookies == {Null} \cup {Some(t) : t \in ClientTokens}

Emails == {"ann@fbes.org", "bob@fbes.org"}
Passwords == {"pw1", "pw2"}

\* db.commit() number 1 or 2 of a handler may raise (OperationalError)
Faults == {"none", "commit1", "commit2"}

-----------------------------------------------------------------------------
(* The tables, models.py.  Only the columns a handler reads or computes    *)
(* are kept: the program-info columns are copied from the request and      *)
(* never read back by any logic.                                           *)

UserRow(email, password) ==
    [email |-> email, hashed_password |-> PwdHash(password), last_login |-> Null]

\* Assessment(...) of create_assessment with the column defaults
NewAssessment(user_id) ==
    [user_id |-> user_id, status |-> "in_progress", responses |-> EmptyDict,
     overall_score |-> Null, category_scores |-> Null, recommendations |-> Null,
     updated_at |-> now, completed_at |-> Null]

Event(event_type, user_id, assessment_id) ==
    [event_type |-> event_type, user_id |-> user_id, assessment_id |-> assessment_id]

\* db.query(User).filter(User.email == email).first(): the row's id, or Null
UserByEmail(email) ==
    IF \E i \in 1..Len(users) : users[i].email = email
    THEN Some(CHOOSE i \in 1..Len(users) :
                 /\ users[i].email = email
                 /\ \A j \in 1..Len(users) : users[j].email = email => i <= j)
    ELSE Null

\* faulty variant of ExistingUser: the lookup finds nothing
UserByEmailNone(email) == Null

\* line 142
ExistingUser(email) == UserByEmail(email)

\* faulty variant of OwnedAssessment: the filter on the owner is left out
AnyAssessment(assessment_id, user_id) ==
    IF assessment_id \in 1..Len(assessments) THEN Some(assessment_id) ELSE Null

\* db.query(Assessment).filter(Assessment.id == assessment_id,
\*                             Assessment.user_id == user.id).first()
OwnedAssessment(assessment_id, user_id) ==
    IF /\ assessment_id \in 1..Len(assessments)
       /\ assessments[assessment_id].user_id = user_id
    THEN Some(assessment_id) ELSE Null

\* faulty variant of MergedRow: saving responses reopens the assessment
MergedRowReopens(assessment, responses) ==
    [assessment EXCEPT !.responses = PyUpdate(assessment.responses, responses),
                       !.status = "in_progress",
                       !.updated_at = now]

\* lines 271-274: the row update_responses writes
MergedRow(assessment, responses) ==
    [assessment EXCEPT !.responses = PyUpdate(assessment.responses, responses),
                       !.updated_at = now]

\* faulty variant of CompletedRow: new recommendations are added to the stored ones
CompletedRowAppends(assessment, scores) ==
    [assessment EXCEPT !.status = "completed",
                       !.overall_score = Some(scores.overall_score),
                       !.category_scores = Some(scores.category_scores),
                       !.recommendations =
                           IF @ = Null THEN Some(scores.recommendations)
                           ELSE Some(@[1] \o scores.recommendations),
                       !.updated_at = now,
                       !.completed_at = Some(now)]

\* lines 348-352: the row complete_assessment writes
CompletedRow(assessment, scores) ==
    [assessment EXCEPT !.status = "completed",
                       !.overall_score = Some(scores.overall_score),
                       !.category_scores = Some(scores.category_scores),
                       !.recommendations = Some(scores.recommendations),
                       !.updated_at = now,
                       !.completed_at = Some(now)]

\* lines 365-370: what complete_assessment returns
CompleteResult(scores) ==
    [overall_score |-> scores.overall_score,
     category_scores |-> scores.category_scores,
     recommendations |-> scores.recommendations,
     readiness |-> Readiness(scores.overall_score)]

\* lines 246-262
AssessmentView(assessment_id) ==
    LET a == assessments[assessment_id]
    IN  [id |-> assessment_id, status |-> a.status, responses |-> a.responses,
         overall_score |-> a.overall_score, category_scores |-> a.category_scores,
         recommendations |-> a.recommendations]

\* lines 227-239: the rows of the user (their order, by updated_at, is left out)
AssessmentList(user_id) ==
    {[id |-> i, status |-> assessments[i].status,
      overall_score |-> assessments[i].overall_score] :
        i \in {j \in 1..Len(assessments) : assessments[j].user_id = user_id}}

-----------------------------------------------------------------------------
(* The handlers.  Each action is one request, handled from start to end.   *)

\* db.commit() number `which` of the handler raises
Fails(fault, which) == fault = which /\ faults < MaxFaults

\* POST /api/auth/register, lines 140-164
register(email, password, fault) ==
    LET existing == ExistingUser(email)
        user_id == Len(users) + 1
        token == create_access_token(user_id)
        \* users.email is unique (models.py line 16): the INSERT fails on a duplicate
        integrity_error == \E i \in 1..Len(users) : users[i].email = email
    IN  /\ handled < MaxRequests
        /\ handled' = handled + 1
        /\ request' = Request("register", Null, Null, Null, 0,
                              Some([email |-> email, password |-> password]), Null)
        /\ UNCHANGED <<CATEGORIES_DATA, assessments, now, last_complete>>
        /\ IF existing # Null
           THEN /\ response' = Response(400, "Email already registered")
                /\ UNCHANGED <<users, analytics_events, tokens, faults>>
           ELSE IF integrity_error
           THEN /\ response' = ServerError
                /\ UNCHANGED <<users, analytics_events, tokens, faults>>
           ELSE IF Fails(fault, "commit1")
           THEN /\ response' = ServerError
                /\ faults' = faults + 1
                /\ UNCHANGED <<users, analytics_events, tokens>>
           ELSE IF Fails(fault, "commit2")
           THEN /\ users' = Append(users, UserRow(email, password))
                /\ response' = ServerError
                /\ faults' = faults + 1
                /\ UNCHANGED <<analytics_events, tokens>>
           ELSE /\ users' = Append(users, UserRow(email, password))
                /\ analytics_events' =
                       Append(analytics_events, Event("user_registered", user_id, Null))
                /\ tokens' = tokens \cup {token}
                /\ response' = [Response(200, "Registration successful")
                                   EXCEPT !.token = Some(token)]
                /\ UNCHANGED faults

\* POST /api/auth/login, lines 166-182
login(email, password, fault) ==
    LET user == UserByEmail(email)
        invalid == IF user = Null THEN TRUE
                   ELSE ~PwdVerify(password, users[user[1]].hashed_password)
    IN  /\ handled < MaxRequests
        /\ handled' = handled + 1
        /\ request' = Request("login", Null, Null, Null, 0,
                              Some([email |-> email, password |-> password]), Null)
        /\ UNCHANGED <<CATEGORIES_DATA, assessments, now, last_complete>>
        /\ IF invalid
           THEN /\ response' = Response(401, "Invalid credentials")
                /\ UNCHANGED <<users, analytics_events, tokens, faults>>
           ELSE IF Fails(fault, "commit1")
           THEN /\ response' = ServerError
                /\ faults' = faults + 1
                /\ UNCHANGED <<users, analytics_events, tokens>>
           ELSE IF Fails(fault, "commit2")
           THEN /\ users' = [users EXCEPT ![user[1]].last_login = Some(now)]
                /\ response' = ServerError
                /\ faults' = faults + 1
                /\ UNCHANGED <<analytics_events, tokens>>
           ELSE /\ users' = [users EXCEPT ![user[1]].last_login = Some(now)]
                /\ analytics_events' =
                       Append(analytics_events, Event("user_login", user[1], Null))
                /\ tokens' = tokens \cup {create_access_token(user[1])}
                /\ response' = [Response(200, "Login successful")
                                   EXCEPT !.token = Some(create_access_token(user[1]))]
                /\ UNCHANGED faults

\* GET /api/auth/me, lines 189-191
get_me(authorization, cookie) ==
    LET user == get_current_user(authorization, cookie)
    IN  /\ handled < MaxRequests
        /\ handled' = handled + 1
        /\ request' = Request("get_me", authorization, cookie, user, 0, Null, Null)
        /\ response' = IF user = Null THEN Unauthorized
                       ELSE Response(200, users[user[1]].email)
        /\ UNCHANGED <<CATEGORIES_DATA, users, assessments, analytics_events, tokens, now,
                       last_complete, faults>>

\* POST /api/assessments, lines 201-223
create_assessment(authorization, cookie, fault) ==
    LET user == get_current_user(authorization, cookie)
        assessment_id == Len(assessments) + 1
    IN  /\ IF user = Null THEN TRUE ELSE Len(assessments) < MaxAssessments
        /\ handled < MaxRequests
        /\ handled' = handled + 1
        /\ request' = Request("create_assessment", authorization, cookie, user, 0, Null, Null)
        /\ UNCHANGED <<CATEGORIES_DATA, users, tokens, now>>
        /\ IF user = Null
           THEN /\ response' = Unauthorized
                /\ UNCHANGED <<assessments, analytics_events, last_complete, faults>>
           ELSE IF Fails(fault, "commit1")
           THEN /\ response' = ServerError
                /\ faults' = faults + 1
                /\ UNCHANGED <<assessments, analytics_events, last_complete>>
           ELSE IF Fails(fault, "commit2")
           THEN /\ assessments' = Append(assessments, NewAssessment(user[1]))
                /\ last_complete' = Append(last_complete, Null)
                /\ response' = ServerError
                /\ faults' = faults + 1
                /\ UNCHANGED analytics_events
           ELSE /\ assessments' = Append(assessments, NewAssessment(user[1]))
                /\ last_complete' = Append(last_complete, Null)
                /\ analytics_events' =
                       Append(analytics_events,
                              Event("assessment_started", user[1], Some(assessment_id)))
                /\ response' = [Response(200, "Assessment created")
                                   EXCEPT !.id = assessment_id]
                /\ UNCHANGED faults

\* GET /api/assessments, lines 225-239
list_assessments(authorization, cookie) ==
    LET user == get_current_user(authorization, cookie)
    IN  /\ handled < MaxRequests
        /\ handled' = handled + 1
        /\ request' = Request("list_assessments", authorization, cookie, user, 0, Null, Null)
        /\ response' = IF user = Null THEN Unauthorized
                       ELSE [Response(200, "") EXCEPT !.items = Some(AssessmentList(user[1]))]
        /\ UNCHANGED <<CATEGORIES_DATA, users, assessments, analytics_events, tokens, now,
                       last_complete, faults>>

\* GET /api/assessments/{assessment_id}, lines 241-262
get_assessment(authorization, cookie, assessment_id) ==
    LET user == get_current_user(authorization, cookie)
        assessment == IF user = Null THEN Null ELSE OwnedAssessment(assessment_id, user[1])
    IN  /\ handled < MaxRequests
        /\ handled' = handled + 1
        /\ request' = Request("get_assessment", authorization, cookie, user, assessment_id,
                              Null, Null)
        /\ response' = IF user = Null THEN Unauthorized
                       ELSE IF assessment = Null THEN NotFound
                       ELSE [Response(200, "") EXCEPT !.item = Some(AssessmentView(assessment_id))]
        /\ UNCHANGED <<CATEGORIES_DATA, users, assessments, analytics_events, tokens, now,
                       last_complete, faults>>

\* PUT /api/assessments/{assessment_id}/responses, lines 264-277
update_responses(authorization, cookie, assessment_id, responses, fault) ==
    LET user == get_current_user(authorization, cookie)
        assessment == IF user = Null THEN Null ELSE OwnedAssessment(assessment_id, user[1])
    IN  /\ handled < MaxRequests
        /\ handled' = handled + 1
        /\ request' = Request("update_responses", authorization, cookie, user, assessment_id,
                              Null, Some(responses))
        /\ UNCHANGED <<CATEGORIES_DATA, users, analytics_events, tokens, now>>
        /\ IF user = Null
           THEN /\ response' = Unauthorized
                /\ UNCHANGED <<assessments, last_complete, faults>>
           ELSE IF assessment = Null
           THEN /\ response' = NotFound
                /\ UNCHANGED <<assessments, last_complete, faults>>
           ELSE IF Fails(fault, "commit1")
           THEN /\ response' = ServerError
                /\ faults' = faults + 1
                /\ UNCHANGED <<assessments, last_complete>>
           ELSE /\ assessments' =
                       [assessments EXCEPT ![assessment_id] = MergedRow(@, responses)]
                /\ last_complete' = [last_complete EXCEPT ![assessment_id] = Null]
                /\ response' = Response(200, "Responses saved")
                /\ UNCHANGED faults

\* POST /api/assessments/{assessment_id}/complete, lines 279-370
complete_assessment(authorization, cookie, assessment_id, fault) ==
    LET user == get_current_user(authorization, cookie)
        assessment == IF user = Null THEN Null ELSE OwnedAssessment(assessment_id, user[1])
        scores == Score(CATEGORIES_DATA, assessments[assessment_id].responses)
    IN  /\ handled < MaxRequests
        /\ handled' = handled + 1
        /\ request' = Request("complete_assessment", authorization, cookie, user,
                              assessment_id, Null, Null)
        /\ UNCHANGED <<CATEGORIES_DATA, users, tokens, now>>
        /\ IF user = Null
           THEN /\ response' = Unauthorized
                /\ UNCHANGED <<assessments, analytics_events, last_complete, faults>>
           ELSE IF assessment = Null
           THEN /\ response' = NotFound
                /\ UNCHANGED <<assessments, analytics_events, last_complete, faults>>
           ELSE IF scores.error
           THEN /\ response' = ServerError
                /\ UNCHANGED <<assessments, analytics_events, last_complete, faults>>
           ELSE IF Fails(fault, "commit1")
           THEN /\ response' = ServerError
                /\ faults' = faults + 1
                /\ UNCHANGED <<assessments, analytics_events, last_complete>>
           ELSE IF Fails(fault, "commit2")
           THEN /\ assessments' =
                       [assessments EXCEPT ![assessment_id] = CompletedRow(@, scores)]
                /\ response' = ServerError
                /\ faults' = faults + 1
                /\ UNCHANGED <<analytics_events, last_complete>>
           ELSE /\ assessments' =
                       [assessments EXCEPT ![assessment_id] = CompletedRow(@, scores)]
                /\ analytics_events' =
                       Append(analytics_events,
                              Event("assessment_completed", user[1], Some(assessment_id)))
                /\ last_complete' = [last_complete EXCEPT
                                        ![assessment_id] = Some(CompleteResult(scores))]
                /\ response' = [Response(200, "")
                                   EXCEPT !.result = Some(CompleteResult(scores))]
                /\ UNCHANGED faults

\* time passes: longer than a token lives
Tick ==
    /\ now + ACCESS_TOKEN_EXPIRE_DAYS + 1 <= MaxNow
    /\ now' = now + ACCESS_TOKEN_EXPIRE_DAYS + 1
    /\ UNCHANGED <<CATEGORIES_DATA, users, assessments, analytics_events, tokens,
                   request, response, last_complete, faults, handled>>

-----------------------------------------------------------------------------
(* The service with a fixed catalog *)

Question(id, impact) == [id |-> id, text |-> id, impact |-> impact]

ServiceCatalog ==
    << [id |-> "1", name |-> "Curriculum", weight |-> 2,
        questions |-> << Question("1.1", 1), Question("1.2", 2) >>],
       [id |-> "2", name |-> "Delivery", weight |-> 1,
        questions |-> << [id |-> "2.1", text |-> "2.1"] >>] >>

Leaf(answer) == [answer |-> answer]

\* the bodies of update_responses that clients send: answers to part of a
\* category, a changed answer, another category, two categories at once
Submissions ==
    { "1" :> ("1.1" :> Leaf("yes")),
      "1" :> ("1.2" :> Leaf("partial")),
      "1" :> ("1.1" :> Leaf("no")),
      "2" :> ("2.1" :> Leaf("yes")),
      ("1" :> ("1.2" :> Leaf("yes"))) @@ ("2" :> ("2.1" :> Leaf("partial"))) }

\* who registers: each person with a password of their own
Registrations ==
    { [email |-> "ann@fbes.org", password |-> "pw1"],
      [email |-> "bob@fbes.org", password |-> "pw2"] }

\* the Authorization headers of a client that sends its token as a bearer
\* token, or sends none
BearerHeaders == {Null} \cup {Some([scheme |-> "Bearer", token |-> t]) : t \in tokens}

Init ==
    /\ CATEGORIES_DATA = ServiceCatalog
    /\ users = << >>
    /\ assessments = << >>
    /\ analytics_events = << >>
    /\ tokens = {}
    /\ now = 0
    /\ request = NoRequest
    /\ response = Response(0, "")
    /\ last_complete = << >>
    /\ faults = 0
    /\ handled = 0

\* the service within a token's lifetime: the clock stands still
Next ==
    \/ \E r \in Registrations, f \in Faults : register(r.email, r.password, f)
    \/ \E h \in BearerHeaders, f \in Faults : create_assessment(h, Null, f)
    \/ \E h \in BearerHeaders : list_assessments(h, Null)
    \/ \E h \in BearerHeaders, a \in 1..MaxAssessments : get_assessment(h, Null, a)
    \/ \E h \in BearerHeaders, a \in 1..MaxAssessments, s \in Submissions,
          f \in {"none", "commit1"} : update_responses(h, Null, a, s, f)
    \/ \E h \in BearerHeaders, a \in 1..MaxAssessments, f \in Faults :
            complete_assessment(h, Null, a, f)

Spec == Init /\ [][Next]_vars

\* authentication alone, with time passing
AuthNext ==
    \/ \E r \in Registrations, f \in Faults : register(r.email, r.password, f)
    \/ \E e \in Emails, p \in Passwords, f \in Faults : login(e, p, f)
    \/ \E h \in Headers, c \in Cookies : get_me(h, c)
    \/ Tick

AuthSpec == Init /\ [][AuthNext]_vars

-----------------------------------------------------------------------------
(* Scoring alone: a catalog and stored responses drawn from bounded sets,  *)
(* and the owner completing the assessment.                                *)

CategoryIds == << "1", "2", "3", "4" >>
QuestionIds == << "q1", "q2", "q3", "q4", "q5", "q6" >>

\* a category's weight and the impacts of its questions (0: the catalog
\* gives impact 0; -1: the catalog gives none)
CategoryShapes ==
    { [weight |-> 1, impacts |-> << >>],
      [weight |-> 0, impacts |-> << 1 >>],
      [weight |-> 1, impacts |-> << 0 >>],
      [weight |-> 3, impacts |-> << -1, 2, 1, 2, 3, -1 >>],
      [weight |-> 2, impacts |-> << 2, 1, 3, 1, 1, 2 >>] }

ShapedQuestion(cid, k, impact) ==
    IF impact < 0
    THEN [id |-> QuestionIds[k], text |-> << cid, QuestionIds[k] >>]
    ELSE [id |-> QuestionIds[k], text |-> << cid, QuestionIds[k] >>, impact |-> impact]

ShapedCategory(k, shape) ==
    [id |-> CategoryIds[k], name |-> CategoryIds[k], weight |-> shape.weight,
     questions |-> [q \in 1..Len(shape.impacts) |->
                       ShapedQuestion(CategoryIds[k], q, shape.impacts[q])]]

\* the catalogs of at most MaxCategories categories of these shapes
ScoringCatalogs ==
    UNION {{[k \in 1..n |-> ShapedCategory(k, shapes[k])] :
               shapes \in [1..n -> CategoryShapes]} : n \in 0..MaxCategories}

\* how a category is answered: odd questions one way, even ones the other
\* ("missing": the question has no entry)
AnswerPatterns ==
    { << "yes", "yes" >>, << "no", "no" >>, << "missing", "missing" >>,
      << "yes", "partial" >>, << "partial", "no" >>, << "missing", "partial" >> }

PatternAnswer(pattern, k) == IF k % 2 = 1 THEN pattern[1] ELSE pattern[2]

PatternResponses(category, pattern) ==
    [q \in {category.questions[k].id :
                k \in {j \in 1..Len(category.questions) :
                          PatternAnswer(pattern, j) # "missing"}} |->
        LET k == CHOOSE j \in 1..Len(category.questions) : category.questions[j].id = q
        IN  Leaf(PatternAnswer(pattern, k))]

\* the responses maps: each category left out, or answered by a pattern
ScoringResponses(categories) ==
    LET ids == {categories[k].id : k \in 1..Len(categories)}
        cat(cid) == CHOOSE c \in {categories[k] : k \in 1..Len(categories)} : c.id = cid
    IN  UNION {{[cid \in cs |-> PatternResponses(cat(cid), pat[cid])] :
                   pat \in [cs -> AnswerPatterns]} : cs \in SUBSET ids}

Ann == [email |-> "ann@fbes.org", password |-> "pw1"]

AnnHeader == Some([scheme |-> "Bearer", token |-> create_access_token(1)])

\* the state after Ann has registered, created assessment 1 and saved responses
ScoringInit ==
    /\ now = 0
    /\ CATEGORIES_DATA \in ScoringCatalogs
    /\ users = << UserRow(Ann.email, Ann.password) >>
    /\ \E responses \in ScoringResponses(CATEGORIES_DATA) :
          /\ assessments = << [NewAssessment(1) EXCEPT !.responses = responses] >>
          /\ request = Request("update_responses", AnnHeader, Null, Some(1), 1, Null,
                               Some(responses))
    /\ analytics_events = << Event("user_registered", 1, Null),
                             Event("assessment_started", 1, Some(1)) >>
    /\ tokens = {create_access_token(1)}
    /\ response = Response(200, "Responses saved")
    /\ last_complete = << Null >>
    /\ faults = 0
    /\ handled = 3

ScoringNext == complete_assessment(AnnHeader, Null, 1, "none")

ScoringSpec == ScoringInit /\ [][ScoringNext]_vars

-----------------------------------------------------------------------------
(* Properties of the scoring, checked under ScoringSpec *)

\* the last request was a completion that succeeded
Completed == request.op = "complete_assessment" /\ response.status_code = 200

ReturnedResult == response.result[1]
StoredResponses == assessments[request.assessment_id].responses

\* the answer the catalog's question q of category c has in the stored responses
StoredAnswer(c, q) ==
    LET cid == CATEGORIES_DATA[c].id
        qid == CATEGORIES_DATA[c].questions[q].id
    IN  IF cid \notin DOMAIN StoredResponses THEN "missing"
        ELSE IF qid \notin DOMAIN StoredResponses[cid] THEN "missing"
        ELSE StoredResponses[cid][qid].answer

CatalogQuestions ==
    {<<c, q>> : c \in 1..Len(CATEGORIES_DATA), q \in 1..6} \cap
    UNION {{<<c, q>> : q \in 1..Len(CATEGORIES_DATA[c].questions)} :
              c \in 1..Len(CATEGORIES_DATA)}

CatalogImpact(p) ==
    LET question == CATEGORIES_DATA[p[1]].questions[p[2]]
    IN  IF "impact" \in DOMAIN question THEN question.impact ELSE 1

\* the questions that call for a recommendation, and their priority
Wanting == {p \in CatalogQuestions : StoredAnswer(p[1], p[2]) \in {"no", "partial", "missing"}}

Priority(p) ==
    CATEGORIES_DATA[p[1]].weight * CatalogImpact(p)
        * (IF StoredAnswer(p[1], p[2]) = "partial" THEN 1 ELSE 2)

\* p1 comes before p2: higher priority, or equal priority and met earlier
Precedes(priority, p1, p2) ==
    \/ priority[p1] > priority[p2]
    \/ /\ priority[p1] = priority[p2]
       /\ (p1[1] < p2[1] \/ (p1[1] = p2[1] /\ p1[2] < p2[2]))

\* the place of every wanting question in that order
Ranks ==
    LET wanting == Wanting
        priority == [p \in wanting |-> Priority(p)]
    IN  [p \in wanting |-> Cardinality({p2 \in wanting : Precedes(priority, p2, p)}) + 1]

\* C6: the recommendations returned and stored by complete_assessment are at
\* most 10, sorted non-increasing by priority_score = weight x impact x (2 for
\* "no" or missing, 1 for "partial"), keep catalog order among equal scores,
\* and are exactly the first 10 of all candidates in that order, so that no
\* omitted candidate has a higher score than an included one.
C6_TopTenRanked ==
    Completed =>
        LET recs == ReturnedResult.recommendations
            rank == Ranks
            candidates == Cardinality(DOMAIN rank)
        IN  /\ assessments[request.assessment_id].recommendations = Some(recs)
            /\ Len(recs) <= TopN
            /\ Len(recs) = IF candidates < TopN THEN candidates ELSE TopN
            /\ \A i, j \in 1..Len(recs) :
                  i < j => recs[i].priority_score >= recs[j].priority_score
            /\ \A p \in DOMAIN rank :
                  IF rank[p] <= TopN
                  THEN /\ recs[rank[p]].category = CATEGORIES_DATA[p[1]].name
                       /\ recs[rank[p]].question = CATEGORIES_DATA[p[1]].questions[p[2]].text
                       /\ recs[rank[p]].priority_score = Priority(p)
                       /\ recs[rank[p]].current_answer =
                              (IF StoredAnswer(p[1], p[2]) = "partial" THEN "partial" ELSE "no")
                  ELSE \A i \in 1..Len(recs) : recs[i].priority_score >= Priority(p)

\* C6 witness: more than 10 candidates, an omitted one, and among those kept
\* both a tie and a strict drop in priority
C6_Witness ==
    /\ Completed
    /\ Cardinality(Wanting) > TopN
    /\ LET recs == ReturnedResult.recommendations
       IN  /\ Len(recs) = TopN
           /\ \E i \in 1..(TopN - 1) : recs[i].priority_score = recs[i + 1].priority_score
           /\ \E i \in 1..(TopN - 1) : recs[i].priority_score > recs[i + 1].priority_score
           /\ \E i \in 1..(TopN - 1) :
                 /\ recs[i].priority_score = recs[i + 1].priority_score
                 /\ recs[i].current_answer # recs[i + 1].current_answer

AllYes == \A p \in CatalogQuestions : StoredAnswer(p[1], p[2]) = "yes"

CatalogMaxScore(c) ==
    LET qs == {p \in CatalogQuestions : p[1] = c}
    IN  IF \E p \in qs : CatalogImpact(p) > 0 THEN 1 ELSE 0

CatalogTotalWeight == TotalWeight(CATEGORIES_DATA, Len(CATEGORIES_DATA))

\* C7 as claimed: every question answered "yes" gives overall_score 100.0 and
\* readiness "ready", for every catalog (stated for catalogs with a question)
C7_Original ==
    (Completed /\ AllYes /\ CatalogQuestions # {}) =>
        /\ ReturnedResult.overall_score = 1000
        /\ ReturnedResult.readiness = "ready"

\* C7 as amended: every question answered "yes" gives overall_score 100.0 and
\* readiness "ready" when the total weight is positive and every category of
\* positive weight has a question of positive impact
C7_AllYesScoresFull ==
    ( /\ Completed
      /\ AllYes
      /\ CatalogTotalWeight > 0
      /\ \A c \in 1..Len(CATEGORIES_DATA) :
            CATEGORIES_DATA[c].weight > 0 => CatalogMaxScore(c) > 0 ) =>
        /\ ReturnedResult.overall_score = 1000
        /\ ReturnedResult.readiness = "ready"
        /\ assessments[request.assessment_id].overall_score = Some(1000)

\* C7 witness: all "yes" in a catalog of two categories, one of weight 0
C7_Witness ==
    /\ Completed
    /\ AllYes
    /\ Len(CATEGORIES_DATA) = 2
    /\ \E c \in 1..2 : CATEGORIES_DATA[c].weight = 0
    /\ \E c \in 1..2 : CATEGORIES_DATA[c].weight > 0 /\ CatalogMaxScore(c) > 0
    /\ \A c \in 1..2 : CATEGORIES_DATA[c].weight > 0 => CatalogMaxScore(c) > 0
    /\ ReturnedResult.overall_score = 1000

\* C8: for every responses map and every catalog with non-negative weights
\* and impacts, complete_assessment does not fail on a zero denominator, the
\* overall score and every category's raw percentage lie in [0,100], a
\* category with zero maximum points has raw percentage 0, and total weight 0
\* gives overall score 0.
C8_ScoresInRange ==
    request.op = "complete_assessment" =>
        /\ response.status_code = 200
        /\ ReturnedResult.overall_score \in 0..1000
        /\ CatalogTotalWeight = 0 => ReturnedResult.overall_score = 0
        /\ DOMAIN ReturnedResult.category_scores =
               {CATEGORIES_DATA[c].id : c \in 1..Len(CATEGORIES_DATA)}
        /\ \A c \in 1..Len(CATEGORIES_DATA) :
              LET entry == ReturnedResult.category_scores[CATEGORIES_DATA[c].id]
              IN  /\ entry.raw_score \in 0..1000
                  /\ CatalogMaxScore(c) = 0 =>
                        entry.raw_score = 0 /\ entry.weighted_score = 0

\* C8 witness: a completion over a catalog with a category of zero maximum
\* points beside one that scores
C8_Witness ==
    /\ Completed
    /\ \E c \in 1..Len(CATEGORIES_DATA) : CatalogMaxScore(c) = 0
    /\ \E c \in 1..Len(CATEGORIES_DATA) :
          ReturnedResult.category_scores[CATEGORIES_DATA[c].id].raw_score > 0
    /\ ReturnedResult.overall_score > 0

-----------------------------------------------------------------------------
(* Properties of the service, checked under Spec (C4 under AuthSpec).      *)
(* A step that handles a request is a step that changes handled; request'  *)
(* and response' are the request it handled and its response.              *)

Handles(op) == handled' # handled /\ request'.op = op

HasEntry(responses, c, q) ==
    IF c \in DOMAIN responses THEN q \in DOMAIN responses[c] ELSE FALSE

\* C1 as claimed: a saved update keeps every submitted (category, question)
\* entry and every stored entry that was not submitted again, also those of
\* a category the update names; no entry is ever deleted.
C1_DeepMerge ==
    [][ (Handles("update_responses") /\ response'.status_code = 200) =>
          LET a == request'.assessment_id
              R == assessments[a].responses
              S == request'.body[1]
              after == assessments'[a].responses
          IN  /\ \A c \in DOMAIN S : \A q \in DOMAIN S[c] :
                    HasEntry(after, c, q) /\ after[c][q] = S[c][q]
              /\ \A c \in DOMAIN R : \A q \in DOMAIN R[c] :
                    ~HasEntry(S, c, q) => (HasEntry(after, c, q) /\ after[c][q] = R[c][q])
      ]_vars

OtherUsers(a) == request'.user # Null /\ a \in 1..Len(assessments)
                 /\ assessments[a].user_id # request'.user[1]

\* C2: get_assessment, update_responses and complete_assessment by a user
\* who does not own the assessment answer 404 exactly as for an id that does
\* not exist and leave the assessments table (and the event log) unchanged;
\* list_assessments returns only rows of the caller.
C2_CrossUserNotFound ==
    [][ /\ \A op \in {"get_assessment", "update_responses", "complete_assessment"} :
              Handles(op) =>
                 /\ OtherUsers(request'.assessment_id) =>
                       /\ response' = NotFound
                       /\ assessments' = assessments
                       /\ analytics_events' = analytics_events
                 /\ (request'.user # Null /\ request'.assessment_id \notin 1..Len(assessments))
                       => response' = NotFound
        /\ (Handles("list_assessments") /\ request'.user # Null) =>
              /\ response'.status_code = 200
              /\ \A item \in response'.items[1] :
                    assessments[item.id].user_id = request'.user[1]
              /\ \A a \in 1..Len(assessments) :
                    assessments[a].user_id = request'.user[1]
                       => \E item \in response'.items[1] : item.id = a
      ]_vars

\* C2 witness: an authenticated user was refused an update of an assessment
\* of another user, who has saved responses in it
C2_Witness ==
    /\ request.op = "update_responses"
    /\ request.user # Null
    /\ request.assessment_id \in 1..Len(assessments)
    /\ assessments[request.assessment_id].user_id # request.user[1]
    /\ assessments[request.assessment_id].responses # EmptyDict
    /\ response = NotFound

\* C3: registering an email of a stored user answers 400 "Email already
\* registered" (not a 500, not a 422), stores no user, hands out no token and
\* logs no event; no two users share an email.
C3_DuplicateEmailRejected ==
    [][ /\ ( /\ Handles("register")
             /\ \E i \in 1..Len(users) : users[i].email = request'.credentials[1].email ) =>
                /\ response'.status_code = 400
                /\ response'.detail = "Email already registered"
                /\ response'.token = Null
                /\ users' = users
                /\ tokens' = tokens
                /\ analytics_events' = analytics_events
        /\ \A i, j \in 1..Len(users') : users'[i].email = users'[j].email => i = j
      ]_vars

\* C3 witness: a second registration of a stored email was refused
C3_Witness ==
    /\ request.op = "register"
    /\ response.status_code = 400
    /\ \E i \in 1..Len(users) : users[i].email = request.credentials[1].email
    /\ Len(users) = 2

SameResults(x, y) ==
    /\ x.overall_score = y.overall_score
    /\ x.category_scores = y.category_scores
    /\ x.recommendations = y.recommendations

\* C5: a completion that follows a completion of the same assessment with no
\* saved update in between returns the result the earlier one returned and
\* leaves the stored overall_score, category_scores and recommendations as
\* they were, equal to what it returns.
C5_CompleteIdempotent ==
    [][ \A a \in 1..Len(assessments) :
          ( /\ Handles("complete_assessment")
            /\ request'.assessment_id = a
            /\ response'.status_code = 200
            /\ last_complete[a] # Null ) =>
               /\ SameResults(response'.result[1], last_complete[a][1])
               /\ response'.result[1].readiness = last_complete[a][1].readiness
               /\ SameResults(assessments'[a], assessments[a])
               /\ assessments'[a].overall_score = Some(response'.result[1].overall_score)
               /\ assessments'[a].category_scores = Some(response'.result[1].category_scores)
               /\ assessments'[a].recommendations = Some(response'.result[1].recommendations)
      ]_vars

\* C5 witness: an assessment with saved answers and a recommendation has
\* been completed twice in a row
C5_Witness ==
    /\ request.op = "complete_assessment"
    /\ response.status_code = 200
    /\ LET a == request.assessment_id
       IN  /\ assessments[a].responses # EmptyDict
           /\ response.result[1].recommendations # << >>
           /\ Cardinality({k \in 1..Len(analytics_events) :
                  /\ analytics_events[k].event_type = "assessment_completed"
                  /\ analytics_events[k].assessment_id = Some(a)}) >= 2

\* C9 as claimed: register, create_assessment and complete_assessment either
\* succeed with the row change and the event both stored, or fail with
\* nothing stored.
C9_AllOrNothing ==
    [][ \A op \in {"register", "login", "create_assessment", "complete_assessment"} :
          Handles(op) =>
             IF response'.status_code = 200
             THEN Len(analytics_events') = Len(analytics_events) + 1
             ELSE /\ users' = users
                  /\ assessments' = assessments
                  /\ analytics_events' = analytics_events
      ]_vars

\* the stored results of assessment a are the scoring of its stored responses
Fresh(a) ==
    LET scores == Score(CATEGORIES_DATA, a.responses)
    IN  /\ a.overall_score = Some(scores.overall_score)
        /\ a.category_scores = Some(scores.category_scores)
        /\ a.recommendations = Some(scores.recommendations)

\* C10 as claimed: a completed assessment's stored results are always the
\* scoring of its currently stored responses, and a completed assessment
\* stays completed.
C10_Original ==
    [][ /\ \A a \in 1..Len(assessments') :
              assessments'[a].status = "completed" => Fresh(assessments'[a])
        /\ \A a \in 1..Len(assessments) :
              assessments[a].status = "completed" => assessments'[a].status = "completed"
      ]_vars

\* C10 as amended: every completion stores the scoring of the responses
\* stored then and sets status "completed"; the stored results stay the
\* scoring of the stored responses until a saved update changes the
\* responses; a completed assessment stays completed.
C10_FreshUntilUpdated ==
    [][ \A a \in 1..Len(assessments) :
          /\ ( /\ Handles("complete_assessment")
               /\ request'.assessment_id = a
               /\ response'.status_code = 200 ) =>
                  (assessments'[a].status = "completed" /\ Fresh(assessments'[a]))
          /\ assessments[a].status = "completed" =>
                /\ assessments'[a].status = "completed"
                /\ assessments'[a].overall_score # Null
                /\ ( /\ assessments'[a] # assessments[a]
                     /\ assessments'[a].responses = assessments[a].responses
                     /\ Fresh(assessments[a]) ) => Fresh(assessments'[a])
                /\ Handles("update_responses") => SameResults(assessments'[a], assessments[a])
      ]_vars

\* C10 witness: a completed assessment whose responses a later update
\* changed: it is still completed, with the results of the old responses
C10_Witness ==
    /\ request.op = "update_responses"
    /\ response.status_code = 200
    /\ assessments[request.assessment_id].status = "completed"
    /\ ~Fresh(assessments[request.assessment_id])

\* a token register or login issued and that has not expired
IssuedAndValid(t) == t \in tokens /\ t.exp >= now

\* C4 as claimed: get_me resolves the request to the user of a valid issued
\* token carried in the Authorization Bearer header or in the access_token
\* cookie, whatever the other source holds (with a valid token in each, to
\* the user of one of them), and answers 401 when neither carries one.
C4_EitherSourceResolves ==
    [][ Handles("get_me") =>
          LET h == request'.authorization
              c == request'.cookie
              byHeader == IF h = Null THEN FALSE
                          ELSE h[1].scheme = "Bearer" /\ IssuedAndValid(h[1].token)
              byCookie == IF c = Null THEN FALSE ELSE IssuedAndValid(c[1])
              resolved == (IF byHeader THEN {Some(h[1].token.sub)} ELSE {})
                             \cup (IF byCookie THEN {Some(c[1].sub)} ELSE {})
          IN  IF byHeader \/ byCookie
              THEN /\ request'.user \in resolved
                   /\ response'.status_code = 200
                   /\ response'.detail = users[request'.user[1]].email
              ELSE /\ request'.user = Null
                   /\ response' = Unauthorized
      ]_vars

=============================================================================
